---- MODULE Spec2Model ----
(***************************************************************************)
(* Model of arrowhead_client.client.client_core.ArrowheadClient: the two   *)
(* service catalogs, orchestration resolution (add_consumed_service), the  *)
(* registration lifecycle and run_forever.  One client object, one thread. *)
(* The transport collaborators (consumer, provider) and the coordination   *)
(* services are the environment: their answers are chosen with \E.         *)
(***************************************************************************)
EXTENDS Integers, Sequences, FiniteSets, TLC

\* ---------------------------------------------------------------- bounds
NumProvided == 3
NumConsumed == 2
MaxCandidates == 2

\* ------------------------------------------------------------ value sets
DefNames == <<"hello", "echo", "temperature", "pressure">>
ProvidedDefs == {DefNames[i] : i \in 1..NumProvided}
ConsumedDefs == {DefNames[i] : i \in 1..NumConsumed}

None == "None"
Methods == {"GET", "PUT"}
RegistryStatuses == {200, 400, 401, 500}
OrchestratorStatuses == {200, 201, 400, 401, 404, 500}
SuccessStatuses == {200, 201}
ErrorMessages == {"not authorized", "token expired"}

\* The provider systems of the environment: sysA is consumed without a token,
\* sysB hands out an authorization token.
Providers ==
    {[system |-> "sysA", authorization_token |-> None],
     [system |-> "sysB", authorization_token |-> "token"]}

Exc(type, arg) == [type |-> type, arg |-> arg]

\* A stored consumed service: the 4-tuple of client_core.py:249-254.  The
\* Service object is represented by its service_definition.
Binding(service, system, http_method, authorization_token) ==
    [service_definition |-> service, system |-> system,
     http_method |-> http_method, authorization_token |-> authorization_token]

Bindings ==
    {Binding(d, p.system, m, p.authorization_token) :
        d \in ConsumedDefs, p \in Providers, m \in Methods}

\* One entry of an orchestration response: (service, provider system, token).
Candidates ==
    {[service_definition |-> d, system |-> p.system,
      authorization_token |-> p.authorization_token] :
        d \in ConsumedDefs, p \in Providers}

NoCandidate == [service_definition |-> "-", system |-> "-", authorization_token |-> "-"]
Decoy == [service_definition |-> DefNames[1], system |-> "sysB", authorization_token |-> "token"]

\* Orchestrator responses: a status and a list of up to MaxCandidates
\* candidates; entries after the first one are dropped by the `*_` of
\* client_core.py:121.
CandidateLists ==
    {<<>>} \cup {<<c>> \o [i \in 1..k |-> Decoy] :
                    c \in Candidates, k \in 0..(MaxCandidates - 1)}

NoArgs == Binding("-", "-", "-", "-")
NoResp == [status |-> 0, count |-> 0, first |-> NoCandidate, message |-> "-"]
NoPrev == [op |-> "-", orchCalls |-> 0]
NoSecure == [mode |-> "-", level |-> "-"]

\* ----------------------------------------------------------- HttpProvider
\* A service_uri and a request path are strings, written as sequences of
\* pieces: "/" is the slash character, any other piece is a run of characters
\* without a slash.
MaxRules == 2
ServiceUris == {<<"hello">>, <<"hello", "/">>, <<"/", "hello">>, <<"echo">>}
Policies == {"TokenAccessPolicy", "CertificateAccessPolicy"}
Rules == [service_uri : ServiceUris, access_policy : Policies]
RequestPaths == {<<"/">> \o u : u \in ServiceUris} \cup {<<"/", "status">>}
Certificates == {"certA", "certB"}
AuthHeaders == {"", "Bearer token"}
NoResponse == [path |-> <<>>, cert |-> "-", auth |-> "-", matched |-> FALSE,
               policy |-> "-", checked |-> FALSE, given |-> <<>>,
               authorized |-> FALSE, status |-> 0, handler |-> <<>>]

VARIABLES
    consumed_services,  \* self._consumed_services: dict definition -> binding
    provided_services,  \* self._provided_services: dict in insertion order
    authorization_publickey, \* self._authorization_publickey
    op,                 \* the method of the client called last / running now
    pc,                 \* position of the thread inside that call
    idx,                \* position of the running for-loop in provided_services
    args,               \* arguments of the call `op`
    orch,               \* orchestrator response seen by add_consumed_service
    log,                \* calls made on the collaborators during `op`
    reported,           \* exceptions caught and printed during `op`
    raised,             \* exception propagating out of `op` (head) and its __context__ chain
    served,             \* provider.run_forever() was entered during `op`
    interrupted,        \* a KeyboardInterrupt arrived inside the try block
    sent,               \* the 4-tuple last handed to consumer.consume_service during `op`
    secure,             \* _register_service: interface.secure of its service and the local `secure`
    policy_map,         \* HttpProvider.policy_map: dict service_uri -> rule
    routes,             \* HttpProvider.app: the routes in the order they were added
    serving,            \* HttpProvider.run_forever has installed the middleware and serves
    response,           \* the last request given to the middleware and what became of it
    prev                \* the catalog call made right before `op`, when it named the same definition

providerVars == <<policy_map, routes, serving, response>>

vars == <<consumed_services, provided_services, authorization_publickey, op, pc,
          idx, args, orch, log, reported, raised, served, interrupted, sent, prev,
          secure, providerVars>>

\* ------------------------------------------------------- pure operations

\* client_core.py:234-254
StoreMerging(cat, service, system, http_method, authorization_token) ==
    LET k == service
        tok == IF authorization_token = None /\ k \in DOMAIN cat
               THEN cat[k].authorization_token ELSE authorization_token
    IN [d \in (DOMAIN cat) \cup {k} |->
           IF d = k THEN Binding(service, system, http_method, tok) ELSE cat[d]]

store_consumed_service(cat, service, system, http_method, authorization_token) ==
    [d \in (DOMAIN cat) \cup {service} |->
        IF d = service
        THEN Binding(service, system, http_method, authorization_token)
        ELSE cat[d]]

\* client_core.py:209-232
core_system_setup ==
    LET c1 == store_consumed_service(<<>>, "register", "service_registry", "POST", None)
        c2 == store_consumed_service(c1, "unregister", "service_registry", "DELETE", None)
        c3 == store_consumed_service(c2, "orchestration-provided_service", "orchestrator", "POST", None)
    IN store_consumed_service(c3, "publickey", "authorization", "GET", None)

\* The security mode of the interface a provided service is declared with
\* (the `interface` argument of client_core.py:133), here fixed per definition.
SecureModes == {"INSECURE", "SECURE", "TOKEN"}
interface_secure(d) ==
    IF d = DefNames[1] THEN "INSECURE"
    ELSE IF d = DefNames[3] THEN "TOKEN"
    ELSE "SECURE"

\* client_core.py:264-270
SecurityLevelDefaultsOpen(mode) ==
    IF mode = "SECURE" THEN "CERTIFICATE" ELSE "NOT_SECURE"

security_level(mode) ==
    IF mode = "INSECURE" THEN "NOT_SECURE"
    ELSE IF mode = "SECURE" THEN "CERTIFICATE"
    ELSE "CERTIFICATE"

\* client_core.py:288-296
register_error(service, status) ==
    IF status = 400 THEN Exc("CouldNotRegisterServiceError", service)
    ELSE IF status = 401 THEN Exc("NotAuthorizedError", "")
    ELSE IF status = 500 THEN Exc("CoreServiceNotAvailableError", "Service Registry")
    ELSE Exc("-", "")

\* client_core.py:335-343
unregister_error(service, status) ==
    IF status = 400 THEN Exc("CouldNotUnregisterServiceError", service)
    ELSE IF status = 401 THEN Exc("NotAuthorizedError", "")
    ELSE IF status = 500 THEN Exc("CoreServiceNotAvailableError", "")
    ELSE Exc("-", "")

\* client_core.py:305  `except errors.CouldNotRegisterServiceError`
RegisterCatchesNothing(e) == FALSE

register_all_catches(e) == e.type = "CouldNotRegisterServiceError"

\* client_core.py:353  `except errors.CouldNotUnregisterServiceError`
unregister_all_catches(e) == e.type = "CouldNotUnregisterServiceError"

\* client_core.py:180  `except KeyboardInterrupt`
RunForeverCatchesAll(e) == TRUE

run_forever_catches(e) == e.type = "KeyboardInterrupt"

\* responses.process_orchestration_response: the list of (service, system,
\* token) of a success response; an empty list raises NoAvailableServicesError
\* and a status that is no success raises OrchestrationProtocolError.
process_orchestration_response(status, candidates) ==
    IF status \notin SuccessStatuses
    THEN [raises |-> "OrchestrationProtocolError", value |-> <<>>]
    ELSE IF Len(candidates) = 0
    THEN [raises |-> "NoAvailableServicesError", value |-> <<>>]
    ELSE [raises |-> "-", value |-> candidates]

\* client_core.py:115-118
OrchestrationErrorDropsMessage(status, message) ==
    IF status = 401 THEN Exc("NotAuthorizedError", "")
    ELSE IF status = 500 THEN Exc("CoreServiceNotAvailableError", "orchestration")
    ELSE Exc("-", "")

orchestration_error(status, message) ==
    IF status = 401 THEN Exc("NotAuthorizedError", message)
    ELSE IF status = 500 THEN Exc("CoreServiceNotAvailableError", "orchestration")
    ELSE Exc("-", "")

\* client_core.py:122  `except errors.NoAvailableServicesError`
AddConsumedCatchesAll(e) == TRUE

add_consumed_catches(e) == e.type = "NoAvailableServicesError"

ProvidedKeys == {provided_services[i].service_definition : i \in 1..Len(provided_services)}

Entry(call, service, status) == [call |-> call, service |-> service, status |-> status]

\* ------------------------------------------------------------------ Init
\* client_core.py:35-60  the client right after __init__
Init ==
    /\ consumed_services = core_system_setup
    /\ provided_services = <<>>
    /\ authorization_publickey = None
    /\ op = "__init__"
    /\ pc = "done"
    /\ idx = 0
    /\ args = NoArgs
    /\ orch = NoResp
    /\ log = <<>>
    /\ reported = <<>>
    /\ raised = <<>>
    /\ served = FALSE
    /\ interrupted = FALSE
    /\ sent = NoArgs
    /\ prev = NoPrev
    /\ secure = NoSecure
    /\ policy_map = <<>>
    /\ routes = <<>>
    /\ serving = FALSE
    /\ response = NoResponse

\* --------------------------------------------------------------- helpers
\* what every call does to the bookkeeping of the previous call
Fresh ==
    /\ orch' = NoResp
    /\ reported' = <<>>
    /\ raised' = <<>>
    /\ served' = FALSE
    /\ interrupted' = FALSE
    /\ prev' = NoPrev
    /\ secure' = NoSecure

\* client_core.py:182-184  the finally block starts _unregister_all_services
EnterFinally ==
    /\ idx' = 1
    /\ pc' = IF Len(provided_services) = 0 THEN "done" ELSE "unregister"

\* client_core.py:173-184  exception e leaves the try body of run_forever
RaiseInTry(e) ==
    /\ raised' = IF run_forever_catches(e) THEN <<>> ELSE <<e>>
    /\ EnterFinally

\* ------------------------------------------------- provided-service catalog
\* client_core.py:154-162  self._provided_services[service_definition] = (...)
declare_provided(provided, d) ==
    IF \E i \in 1..Len(provided) : provided[i].service_definition = d
    THEN [i \in 1..Len(provided) |->
             IF provided[i].service_definition = d
             THEN [service_definition |-> d, access_policy |-> "CERTIFICATE"]
             ELSE provided[i]]
    ELSE Append(provided, [service_definition |-> d, access_policy |-> "CERTIFICATE"])

\* client_core.py:129-164  the decorator stores the declaration
provided_service(d) ==
    /\ pc = "done"
    /\ provided_services' = declare_provided(provided_services, d)
    /\ op' = "provided_service"
    /\ args' = Binding(d, "-", "-", "-")
    /\ log' = <<>>
    /\ sent' = NoArgs
    /\ Fresh
    /\ UNCHANGED <<consumed_services, authorization_publickey, pc, idx>>
    /\ UNCHANGED providerVars

\* ------------------------------------------------- consumed-service catalog
OrchestratorCalls ==
    Cardinality({i \in 1..Len(log) : log[i].call = "orchestration-provided_service"})

\* bookkeeping: what `prev` remembers of the call that a call on definition d
\* replaces, when that call was a catalog call on the same definition
PrevCall(d) ==
    IF /\ op \in {"_store_consumed_service", "add_consumed_service", "consume_service"}
       /\ args.service_definition = d
    THEN [op |-> op, orchCalls |-> OrchestratorCalls]
    ELSE NoPrev

\* client_core.py:234-254  _store_consumed_service called on its own
StoreConsumed(b) ==
    /\ pc = "done"
    /\ consumed_services' = store_consumed_service(consumed_services,
            b.service_definition, b.system, b.http_method, b.authorization_token)
    /\ op' = "_store_consumed_service"
    /\ args' = b
    /\ log' = <<>>
    /\ sent' = NoArgs
    /\ orch' = NoResp
    /\ reported' = <<>>
    /\ raised' = <<>>
    /\ served' = FALSE
    /\ interrupted' = FALSE
    /\ prev' = PrevCall(b.service_definition)
    /\ UNCHANGED <<provided_services, authorization_publickey, pc, idx>>
    /\ secure' = NoSecure
    /\ UNCHANGED providerVars

\* client_core.py:71  self._consumed_services[service_definition]
LookupWithDefault(cat, d) ==
    IF d \in DOMAIN cat
    THEN [raises |-> "-", value |-> cat[d]]
    ELSE [raises |-> "-", value |-> NoArgs]

consumed_lookup(cat, d) ==
    IF d \in DOMAIN cat
    THEN [raises |-> "-", value |-> cat[d]]
    ELSE [raises |-> "KeyError", value |-> NoArgs]

\* client_core.py:62-82
consume_service(d) ==
    LET found == consumed_lookup(consumed_services, d) IN
    /\ pc = "done"
    /\ op' = "consume_service"
    /\ args' = Binding(d, "-", "-", "-")
    /\ orch' = NoResp
    /\ reported' = <<>>
    /\ served' = FALSE
    /\ interrupted' = FALSE
    /\ prev' = PrevCall(d)
    /\ IF found.raises = "-"
       THEN /\ sent' = found.value
            /\ log' = <<Entry(d, d, 200)>>
            /\ raised' = <<>>
       ELSE /\ sent' = NoArgs
            /\ log' = <<>>
            /\ raised' = <<Exc(found.raises, d)>>
    /\ UNCHANGED <<consumed_services, provided_services, authorization_publickey, pc, idx>>
    /\ secure' = NoSecure
    /\ UNCHANGED providerVars

\* client_core.py:87-127
add_consumed_service(d, method, status, candidates, message) ==
    LET answered == orchestration_error(status, message)
        processed == process_orchestration_response(status, candidates)
        failed == Exc(processed.raises, "")
        first == processed.value[1]
    IN
    /\ pc = "done"
    /\ op' = "add_consumed_service"
    /\ args' = Binding(d, "-", method, "-")
    /\ prev' = PrevCall(d)
    /\ sent' = consumed_services["orchestration-provided_service"]
    /\ log' = <<Entry("orchestration-provided_service", d, status)>>
    /\ orch' = [status |-> status, count |-> Len(candidates),
                first |-> IF Len(candidates) = 0 THEN NoCandidate ELSE candidates[1],
                message |-> message]
    /\ served' = FALSE
    /\ interrupted' = FALSE
    /\ IF answered.type # "-"
       THEN /\ raised' = <<answered>>
            /\ reported' = <<>>
            /\ UNCHANGED consumed_services
       ELSE IF processed.raises # "-"
       THEN /\ raised' = IF add_consumed_catches(failed) THEN <<>> ELSE <<failed>>
            /\ reported' = IF add_consumed_catches(failed) THEN <<failed>> ELSE <<>>
            /\ UNCHANGED consumed_services
       ELSE /\ raised' = <<>>
            /\ reported' = <<>>
            /\ consumed_services' = store_consumed_service(consumed_services,
                   first.service_definition, first.system, method,
                   first.authorization_token)
    /\ UNCHANGED <<provided_services, authorization_publickey, pc, idx>>
    /\ secure' = NoSecure
    /\ UNCHANGED providerVars

\* ---------------------------------------------------- registration lifecycle
\* client_core.py:298-306 with 256-296: one iteration of the loop
RegisterStep(status) ==
    LET d == provided_services[idx].service_definition
        e == register_error(d, status)
        goOn == e.type = "-" \/ register_all_catches(e)
        last == idx + 1 > Len(provided_services)
    IN
    /\ pc = "register"
    /\ sent' = consumed_services["register"]
    /\ log' = Append(log, Entry("register", d, status))
    /\ reported' = IF e.type # "-" /\ register_all_catches(e)
                   THEN Append(reported, e) ELSE reported
    /\ IF goOn
       THEN /\ idx' = idx + 1
            /\ pc' = IF ~last THEN "register"
                     ELSE IF op = "run_forever" THEN "serve" ELSE "done"
            /\ served' = (last /\ op = "run_forever")
            /\ UNCHANGED raised
       ELSE IF op = "run_forever"
       THEN /\ RaiseInTry(e)
            /\ UNCHANGED served
       ELSE /\ raised' = <<e>>
            /\ pc' = "done"
            /\ UNCHANGED <<idx, served>>
    /\ UNCHANGED <<consumed_services, provided_services, authorization_publickey,
                   op, args, orch, interrupted, prev>>
    /\ secure' = [mode |-> interface_secure(d), level |-> security_level(interface_secure(d))]
    /\ UNCHANGED providerVars

\* client_core.py:345-354 with 308-343: one iteration of the loop
UnregisterStep(status) ==
    LET d == provided_services[idx].service_definition
        e == IF d \notin ProvidedKeys THEN Exc("ValueError", d)
             ELSE unregister_error(d, status)
        goOn == e.type = "-" \/ unregister_all_catches(e)
        last == idx + 1 > Len(provided_services)
    IN
    /\ pc = "unregister"
    /\ IF d \in ProvidedKeys
       THEN /\ sent' = consumed_services["unregister"]
            /\ log' = Append(log, Entry("unregister", d, status))
       ELSE UNCHANGED <<sent, log>>
    /\ reported' = IF e.type # "-" /\ unregister_all_catches(e)
                   THEN Append(reported, e) ELSE reported
    /\ IF goOn
       THEN /\ idx' = idx + 1
            /\ pc' = IF last THEN "done" ELSE "unregister"
            /\ UNCHANGED raised
       ELSE /\ raised' = <<e>> \o raised
            /\ pc' = "done"
            /\ UNCHANGED idx
    /\ UNCHANGED <<consumed_services, provided_services, authorization_publickey,
                   op, args, orch, served, interrupted, prev>>
    /\ UNCHANGED secure
    /\ UNCHANGED providerVars

\* client_core.py:256-296  _register_service called on its own, with a service
\* of any security mode
RegisterOne(d, mode, status) ==
    LET e == register_error(d, status) IN
    /\ pc = "done"
    /\ op' = "_register_service"
    /\ args' = Binding(d, "-", "-", "-")
    /\ orch' = NoResp
    /\ reported' = <<>>
    /\ served' = FALSE
    /\ interrupted' = FALSE
    /\ prev' = NoPrev
    /\ secure' = [mode |-> mode, level |-> security_level(mode)]
    /\ sent' = consumed_services["register"]
    /\ log' = <<Entry("register", d, status)>>
    /\ raised' = IF e.type = "-" THEN <<>> ELSE <<e>>
    /\ UNCHANGED <<consumed_services, provided_services, authorization_publickey, pc, idx>>
    /\ UNCHANGED providerVars

\* client_core.py:318  `service_definition not in self._provided_services.keys()`
AlwaysProvided(keys, d) == TRUE

is_provided(keys, d) == d \in keys

\* client_core.py:308-343  _unregister_service called on its own
UnregisterOne(d, status) ==
    LET e == unregister_error(d, status) IN
    /\ pc = "done"
    /\ op' = "_unregister_service"
    /\ args' = Binding(d, "-", "-", "-")
    /\ orch' = NoResp
    /\ reported' = <<>>
    /\ served' = FALSE
    /\ interrupted' = FALSE
    /\ prev' = NoPrev
    /\ IF ~is_provided(ProvidedKeys, d)
       THEN /\ raised' = <<Exc("ValueError", d)>>
            /\ log' = <<>>
            /\ sent' = NoArgs
       ELSE /\ sent' = consumed_services["unregister"]
            /\ log' = <<Entry("unregister", d, status)>>
            /\ raised' = IF e.type = "-" THEN <<>> ELSE <<e>>
    /\ UNCHANGED <<consumed_services, provided_services, authorization_publickey, pc, idx>>
    /\ secure' = NoSecure
    /\ UNCHANGED providerVars

\* client_core.py:298-306  _register_all_services called on its own
RegisterAll ==
    /\ pc = "done"
    /\ op' = "_register_all_services"
    /\ args' = NoArgs
    /\ log' = <<>>
    /\ sent' = NoArgs
    /\ Fresh
    /\ idx' = 1
    /\ pc' = IF Len(provided_services) = 0 THEN "done" ELSE "register"
    /\ UNCHANGED <<consumed_services, provided_services, authorization_publickey>>
    /\ UNCHANGED providerVars

\* client_core.py:345-354  _unregister_all_services called on its own
UnregisterAll ==
    /\ pc = "done"
    /\ op' = "_unregister_all_services"
    /\ args' = NoArgs
    /\ log' = <<>>
    /\ sent' = NoArgs
    /\ Fresh
    /\ idx' = 1
    /\ pc' = IF Len(provided_services) = 0 THEN "done" ELSE "unregister"
    /\ UNCHANGED <<consumed_services, provided_services, authorization_publickey>>
    /\ UNCHANGED providerVars

\* ------------------------------------------------------------- run_forever
\* client_core.py:166-173  run_forever is called and enters the try block
RunForever ==
    /\ pc = "done"
    /\ op' = "run_forever"
    /\ args' = NoArgs
    /\ log' = <<>>
    /\ sent' = NoArgs
    /\ Fresh
    /\ idx' = 0
    /\ pc' = "keyfetch"
    /\ UNCHANGED <<consumed_services, provided_services, authorization_publickey>>
    /\ UNCHANGED providerVars

\* client_core.py:174  the key is fetched, or the fetch raises
FetchKey(ok) ==
    /\ pc = "keyfetch"
    /\ sent' = consumed_services["publickey"]
    /\ log' = Append(log, Entry("publickey", "-", IF ok THEN 200 ELSE 500))
    /\ IF ok
       THEN /\ authorization_publickey' = "authorization_key"
            /\ pc' = "init"
            /\ UNCHANGED <<raised, idx>>
       ELSE /\ RaiseInTry(Exc("CoreServiceNotAvailableError", "authorization"))
            /\ UNCHANGED authorization_publickey
    /\ UNCHANGED <<consumed_services, provided_services, op, args, orch, reported,
                   served, interrupted, prev>>
    /\ UNCHANGED secure
    /\ UNCHANGED providerVars

\* client_core.py:175-179 with 194-206.  Inside _initialize_provided_services
\* the loop target `access_policy` (line 195) is the declared policy name, a
\* str, and hides the module imported at line 12; evaluating
\* `access_policy.get_access_policy` (line 201) for the first declared service
\* raises AttributeError before provider.add_provided_service is called.
\* With no declared service both loops are empty and the serve loop starts.
InitializeProvidedServices ==
    /\ pc = "init"
    /\ IF Len(provided_services) = 0
       THEN /\ pc' = "serve"
            /\ served' = TRUE
            /\ UNCHANGED <<raised, idx>>
       ELSE /\ RaiseInTry(Exc("AttributeError", "get_access_policy"))
            /\ UNCHANGED served
    /\ UNCHANGED <<consumed_services, provided_services, authorization_publickey,
                   op, args, orch, log, reported, interrupted, sent, prev>>
    /\ UNCHANGED secure
    /\ UNCHANGED providerVars

\* client_core.py:179  provider.run_forever() returns
ServeLoopExit ==
    /\ pc = "serve"
    /\ EnterFinally
    /\ UNCHANGED <<consumed_services, provided_services, authorization_publickey,
                   op, args, orch, log, reported, raised, served, interrupted,
                   sent, prev>>
    /\ UNCHANGED secure
    /\ UNCHANGED providerVars

\* client_core.py:173-181  KeyboardInterrupt inside the try block
Interrupt ==
    /\ op = "run_forever"
    /\ pc \in {"keyfetch", "init", "register", "serve"}
    /\ interrupted' = TRUE
    /\ RaiseInTry(Exc("KeyboardInterrupt", ""))
    /\ UNCHANGED <<consumed_services, provided_services, authorization_publickey,
                   op, args, orch, log, reported, served, sent, prev>>
    /\ UNCHANGED secure
    /\ UNCHANGED providerVars

\* client_core.py:182-185  KeyboardInterrupt inside the finally block
InterruptShutdown ==
    /\ op = "run_forever"
    /\ pc = "unregister"
    /\ raised' = <<Exc("KeyboardInterrupt", "")>> \o raised
    /\ pc' = "done"
    /\ UNCHANGED <<consumed_services, provided_services, authorization_publickey,
                   op, idx, args, orch, log, reported, served, interrupted,
                   sent, prev>>
    /\ UNCHANGED secure
    /\ UNCHANGED providerVars

\* ------------------------------------------------- calls made while serving
\* client_core.py:179 blocks in provider.run_forever(); the handlers it runs
\* are functions of the application and hold the client.  The catalog part of
\* add_consumed_service (client_core.py:87-127) called from a handler:
orchestrated(cat, method, status, candidates, message) ==
    LET answered == orchestration_error(status, message)
        processed == process_orchestration_response(status, candidates)
        first == processed.value[1]
    IN IF answered.type # "-" \/ processed.raises # "-"
       THEN cat
       ELSE store_consumed_service(cat, first.service_definition, first.system,
                                   method, first.authorization_token)

HandlerAddConsumedService(d, method, status, candidates, message) ==
    /\ pc = "serve"
    /\ consumed_services' = orchestrated(consumed_services, method, status,
                                         candidates, message)
    /\ consumed_services' # consumed_services
    /\ UNCHANGED <<provided_services, authorization_publickey, op, pc, idx, args,
                   orch, log, reported, raised, served, interrupted, sent, prev,
                   secure>>
    /\ UNCHANGED providerVars

\* the decorator of client_core.py:129-164 applied from a handler
HandlerProvidedService(d) ==
    /\ pc = "serve"
    /\ provided_services' = declare_provided(provided_services, d)
    /\ provided_services' # provided_services
    /\ UNCHANGED <<consumed_services, authorization_publickey, op, pc, idx, args,
                   orch, log, reported, raised, served, interrupted, sent, prev,
                   secure>>
    /\ UNCHANGED providerVars

\* ------------------------------------------------------------ HttpProvider
clientVars == <<consumed_services, provided_services, authorization_publickey,
                op, pc, idx, args, orch, log, reported, raised, served,
                interrupted, sent, prev, secure>>

\* str.strip('/') of fastapi_provider.py:24
RECURSIVE lstrip(_)
lstrip(s) == IF s # <<>> /\ Head(s) = "/" THEN lstrip(Tail(s)) ELSE s

RECURSIVE rstrip(_)
rstrip(s) == IF s # <<>> /\ s[Len(s)] = "/" THEN rstrip(SubSeq(s, 1, Len(s) - 1)) ELSE s

strip(s) == rstrip(lstrip(s))

\* fastapi_provider.py:53  f'/{rule.service_uri}'
route_path(uri) == <<"/">> \o uri

\* fastapi_provider.py:49  self.policy_map[rule.service_uri] = rule
policy_map_set(pm, rule) ==
    [k \in DOMAIN pm \cup {rule.service_uri} |->
        IF k = rule.service_uri THEN rule ELSE pm[k]]

\* fastapi_provider.py:48-61  (rules of the HTTP protocol; the endpoint of a
\* route is the function of the rule, named here by the rule)
add_provided_service(rule) ==
    /\ Len(routes) < MaxRules
    /\ policy_map' = policy_map_set(policy_map, rule)
    /\ routes' = Append(routes, [path |-> route_path(rule.service_uri),
                                 endpoint |-> rule])
    /\ response' = NoResponse
    /\ UNCHANGED serving
    /\ UNCHANGED clientVars

\* fastapi_provider.py:63-79  the middleware is installed and uvicorn serves
provider_run_forever ==
    /\ ~serving
    /\ serving' = TRUE
    /\ response' = NoResponse
    /\ UNCHANGED <<policy_map, routes>>
    /\ UNCHANGED clientVars

\* call_next(request): the application routes the request to the first route
\* added for its path and runs the endpoint, or answers 404
call_next(path) ==
    LET hits == {i \in 1..Len(routes) : routes[i].path = path} IN
    IF hits = {}
    THEN [status |-> 404, handler |-> <<>>]
    ELSE [status |-> 200,
          handler |-> <<routes[CHOOSE i \in hits : \A j \in hits : i <= j].endpoint>>]

\* fastapi_provider.py:31  isinstance(..., TokenAccessPolicy)
NeverTokenPolicy(policy) == FALSE

is_token_policy(policy) == policy = "TokenAccessPolicy"

\* fastapi_provider.py:33  `if not ...is_authorized(consumer_cert, auth_str)`
RejectsNobody(authorized) == FALSE

rejects(authorized) == ~authorized

\* fastapi_provider.py:23-36  one request through the middleware.  `verdict`
\* is what the rule's is_authorized answers when it is asked.
dispatch(path, cert, auth, verdict) ==
    LET key == strip(path)
        matched == key \in DOMAIN policy_map
        policy == policy_map[key].access_policy
        asked == [path |-> path, cert |-> cert, auth |-> auth, matched |-> matched,
                  policy |-> "-", checked |-> FALSE, given |-> <<>>,
                  authorized |-> FALSE, status |-> 0, handler |-> <<>>]
        next == call_next(path)
    IN
    /\ serving
    /\ response' =
          IF ~matched
          THEN [asked EXCEPT !.status = next.status, !.handler = next.handler]
          ELSE IF is_token_policy(policy)
          THEN [asked EXCEPT !.policy = policy, !.status = 501]
          ELSE IF rejects(verdict)
          THEN [asked EXCEPT !.policy = policy, !.checked = TRUE,
                             !.given = <<"consumer_cert", "auth_str">>,
                             !.authorized = verdict, !.status = 403]
          ELSE [asked EXCEPT !.policy = policy, !.checked = TRUE,
                             !.given = <<"consumer_cert", "auth_str">>,
                             !.authorized = verdict,
                             !.status = next.status, !.handler = next.handler]
    /\ UNCHANGED <<policy_map, routes, serving>>
    /\ UNCHANGED clientVars

\* The orchestrator's answers: a candidate list comes with a success status,
\* an errorMessage with the other ones.
OrchestratorResponses ==
    {<<200, c, "-">> : c \in CandidateLists}
    \cup {<<201, <<c>>, "-">> : c \in Candidates}
    \cup {<<401, <<>>, m>> : m \in ErrorMessages}
    \cup {<<st, <<>>, "error">> : st \in OrchestratorStatuses \ (SuccessStatuses \cup {401})}

\* the registration lifecycle and the runtime
NextLifecycle ==
    \/ \E d \in ProvidedDefs : provided_service(d)
    \/ RegisterAll
    \/ UnregisterAll
    \/ \E d \in ProvidedDefs, m \in SecureModes, s \in RegistryStatuses :
          RegisterOne(d, m, s)
    \/ \E d \in ProvidedDefs, s \in RegistryStatuses : UnregisterOne(d, s)
    \/ \E s \in RegistryStatuses : RegisterStep(s)
    \/ \E s \in RegistryStatuses : UnregisterStep(s)
    \/ RunForever
    \/ \E ok \in BOOLEAN : FetchKey(ok)
    \/ InitializeProvidedServices
    \/ ServeLoopExit
    \/ Interrupt
    \/ InterruptShutdown

\* the consumed-service catalog and orchestration
NextCatalog ==
    \/ \E b \in Bindings : StoreConsumed(b)
    \/ \E d \in ConsumedDefs : consume_service(d)
    \/ \E d \in ConsumedDefs, m \in Methods, r \in OrchestratorResponses :
          add_consumed_service(d, m, r[1], r[2], r[3])

Next == NextLifecycle \/ NextCatalog

Spec == Init /\ [][Next]_vars

\* The lifecycle never writes the consumed catalog and the catalog operations
\* never read the provided catalog, so each half also stands on its own.
SpecLifecycle == Init /\ [][NextLifecycle]_vars

SpecCatalog == Init /\ [][NextCatalog]_vars

\* run_forever up to the end of the serve loop, with the calls that handlers
\* make on the client while it serves
NextServing ==
    \/ RunForever
    \/ \E ok \in BOOLEAN : FetchKey(ok)
    \/ InitializeProvidedServices
    \/ \E d \in ConsumedDefs, m \in Methods, r \in OrchestratorResponses :
          HandlerAddConsumedService(d, m, r[1], r[2], r[3])
    \/ \E d \in ProvidedDefs : HandlerProvidedService(d)
    \/ ServeLoopExit
    \/ Interrupt

SpecServing == Init /\ [][NextServing]_vars

\* Orchestration against an orchestrator that also offers services named like
\* core services (client_core.py:218-231).
CoreDefs == {"register", "publickey"}
CoreNamedCandidates ==
    {[service_definition |-> d, system |-> "sysA", authorization_token |-> None] :
        d \in CoreDefs}

NextCoreCatalog ==
    \/ \E d \in ConsumedDefs : consume_service(d)
    \/ \E d \in ConsumedDefs, m \in Methods, c \in Candidates \cup CoreNamedCandidates :
          add_consumed_service(d, m, 200, <<c>>, "-")

SpecCoreCatalog == Init /\ [][NextCoreCatalog]_vars

\* the HTTP provider on its own
NextProvider ==
    \/ \E rule \in Rules : add_provided_service(rule)
    \/ provider_run_forever
    \/ \E path \in RequestPaths, cert \in Certificates, auth \in AuthHeaders,
          verdict \in BOOLEAN : dispatch(path, cert, auth, verdict)

SpecProvider == Init /\ [][NextProvider]_vars

\* ================================================================ properties
RegisterEntries == {i \in 1..Len(log) : log[i].call = "register"}
UnregisterEntries == {i \in 1..Len(log) : log[i].call = "unregister"}
RequestsFor(call, d) == {i \in 1..Len(log) : log[i].call = call /\ log[i].service = d}
ReportsFor(d) == {j \in 1..Len(reported) : reported[j].arg = d}
KeyFetchFailed ==
    /\ op = "run_forever"
    /\ Len(log) >= 1
    /\ log[1].call = "publickey"
    /\ log[1].status # 200
InterruptedInFinally == raised # <<>> /\ raised[1].type = "KeyboardInterrupt"

\* C1: when _register_all_services has finished and the registry answered only
\* 200 or 400, the log holds exactly one registration request per declared
\* service, in declaration order, exactly one failure was reported for each
\* service answered 400 and none for the others, and nothing was raised.
C1_RegisterAllIsolates400 ==
    (/\ op = "_register_all_services"
     /\ pc = "done"
     /\ \A i \in 1..Len(log) : log[i].status \in {200, 400})
    => /\ Len(log) = Len(provided_services)
       /\ \A i \in 1..Len(log) :
             /\ log[i].call = "register"
             /\ log[i].service = provided_services[i].service_definition
             /\ Cardinality(ReportsFor(log[i].service)) =
                   (IF log[i].status = 400 THEN 1 ELSE 0)
       /\ \A j \in 1..Len(reported) : reported[j].type = "CouldNotRegisterServiceError"
       /\ raised = <<>>

C1_Witness ==
    /\ op = "_register_all_services"
    /\ pc = "done"
    /\ Len(provided_services) >= 3
    /\ Len(log) = Len(provided_services)
    /\ log[1].status = 200
    /\ log[2].status = 400
    /\ log[3].status = 200
    /\ Len(reported) = 1

\* C2: when _register_all_services has finished, whatever the registry
\* answered (200, 400, 401, 500), a registration request was sent for every
\* declared service and no exception left the call.
C2_RegisterAllIsolatesEveryFailure ==
    (op = "_register_all_services" /\ pc = "done")
    => /\ \A d \in ProvidedKeys : RequestsFor("register", d) # {}
       /\ raised = <<>>

\* C3: when _unregister_all_services has finished, whatever the registry
\* answered, an unregistration request was sent for every declared service.
C3_UnregisterAllAttemptsEvery ==
    (op = "_unregister_all_services" /\ pc = "done")
    => \A d \in ProvidedKeys : RequestsFor("unregister", d) # {}

\* C4: when run_forever has terminated after an interrupt inside the try
\* block or after the serve loop was entered and left, an unregistration
\* request was sent for every declared service.
C4_CleanupOnInterrupt ==
    (/\ op = "run_forever"
     /\ pc = "done"
     /\ interrupted \/ served
     /\ ~InterruptedInFinally)
    => \A d \in ProvidedKeys : RequestsFor("unregister", d) # {}

\* C5: a run of run_forever with hello and echo declared, a successful key
\* fetch and no interrupt enters the serve loop, and has asked to unregister
\* both services when it terminates.
C5_PartialRegistrationStillServes ==
    (/\ op = "run_forever"
     /\ pc = "done"
     /\ ProvidedKeys = {"hello", "echo"}
     /\ ~KeyFetchFailed
     /\ ~interrupted
     /\ ~InterruptedInFinally
     /\ \A i \in RegisterEntries :
           log[i].status = (IF log[i].service = "echo" THEN 400 ELSE 200))
    => /\ served
       /\ RequestsFor("unregister", "hello") # {}
       /\ RequestsFor("unregister", "echo") # {}

\* C6: once the key fetch of run_forever has failed, the run never gets to
\* _initialize_provided_services (the one place that hands services to the
\* provider), to the registration loop or to the serve loop, no registration
\* request is sent, and run_forever terminates by raising, the key-fetch
\* error being the raised exception or the origin of its context chain.
C6_KeyFetchFailureAborts ==
    KeyFetchFailed
    => /\ ~served
       /\ pc \notin {"init", "register", "serve"}
       /\ RegisterEntries = {}
       /\ pc = "done" =>
             /\ raised # <<>>
             /\ raised[Len(raised)] = Exc("CoreServiceNotAvailableError", "authorization")

C6_Witness ==
    /\ KeyFetchFailed
    /\ pc = "done"
    /\ Len(provided_services) >= 2
    /\ Cardinality(UnregisterEntries) = Len(provided_services)
    /\ Len(raised) = 1

\* C7: an add_consumed_service call that receives a success response with no
\* candidate raises NoAvailableServicesError and leaves the catalog as it was.
C7_EmptyResponseRaises ==
    [][(/\ pc = "done"
        /\ op' = "add_consumed_service"
        /\ orch'.status \in SuccessStatuses
        /\ orch'.count = 0)
       => /\ raised' # <<>>
          /\ raised'[1].type = "NoAvailableServicesError"
          /\ consumed_services' = consumed_services]_vars

\* C8: a successful add_consumed_service(d) leaves under d the binding made of
\* the first candidate's system and token and the requested method, and does
\* not create or change an entry under the candidate's own definition when
\* that differs from d.
C8_StoredUnderRequestedDefinition ==
    [][(/\ pc = "done"
        /\ op' = "add_consumed_service"
        /\ raised' = <<>>
        /\ orch'.count > 0)
       => LET d == args'.service_definition
              f == orch'.first
          IN /\ d \in DOMAIN consumed_services'
             /\ consumed_services'[d].system = f.system
             /\ consumed_services'[d].http_method = args'.http_method
             /\ consumed_services'[d].authorization_token = f.authorization_token
             /\ f.service_definition # d =>
                   IF f.service_definition \in DOMAIN consumed_services
                   THEN consumed_services'[f.service_definition] =
                           consumed_services[f.service_definition]
                   ELSE f.service_definition \notin DOMAIN consumed_services']_vars

\* C9: when add_consumed_service(d) has succeeded right after another
\* add_consumed_service(d), the two calls made two orchestrator calls in all
\* and the catalog entry under d is the binding of the second call.
C9_SecondResolveSupersedes ==
    (/\ op = "add_consumed_service"
     /\ prev.op = "add_consumed_service"
     /\ raised = <<>>
     /\ orch.count > 0)
    => /\ prev.orchCalls + OrchestratorCalls = 2
       /\ args.service_definition \in DOMAIN consumed_services
       /\ consumed_services[args.service_definition] =
             Binding(args.service_definition, orch.first.system,
                     args.http_method, orch.first.authorization_token)

\* C10: _store_consumed_service(b) leaves exactly b under b's definition and
\* every other entry as it was, also when an entry for that definition
\* existed; a consume_service of that definition made right after it hands
\* exactly the four stored fields to the consumer.
C10_StoreLookupRoundTrip ==
    [][/\ (pc = "done" /\ op' = "_store_consumed_service")
          => /\ DOMAIN consumed_services' =
                   DOMAIN consumed_services \cup {args'.service_definition}
             /\ consumed_services'[args'.service_definition] = args'
             /\ \A k \in DOMAIN consumed_services \ {args'.service_definition} :
                   consumed_services'[k] = consumed_services[k]
       /\ (/\ op = "_store_consumed_service"
           /\ op' = "consume_service"
           /\ args'.service_definition = args.service_definition)
          => /\ sent' = args
             /\ raised' = <<>>]_vars

C10_Witness ==
    /\ op = "consume_service"
    /\ prev.op = "_store_consumed_service"
    /\ sent.authorization_token = None
    /\ sent.http_method = "PUT"
    /\ \E k \in ConsumedDefs \ {args.service_definition} : k \in DOMAIN consumed_services

\* C11 (as claimed): a consume_service of a definition that is not in the
\* consumed catalog raises UnknownServiceError, calls nothing on the consumer
\* and leaves the catalog as it was.
C11_MissRaisesUnknownService ==
    [][(/\ pc = "done"
        /\ op' = "consume_service"
        /\ args'.service_definition \notin DOMAIN consumed_services)
       => /\ raised' = <<Exc("UnknownServiceError", args'.service_definition)>>
          /\ log' = <<>>
          /\ sent' = NoArgs
          /\ consumed_services' = consumed_services]_vars

\* C11 (amended): a consume_service of a definition that is not in the
\* consumed catalog raises KeyError for that definition, calls nothing on the
\* consumer and leaves the catalog as it was.
C11_MissRaisesKeyError ==
    [][(/\ pc = "done"
        /\ op' = "consume_service"
        /\ args'.service_definition \notin DOMAIN consumed_services)
       => /\ raised' = <<Exc("KeyError", args'.service_definition)>>
          /\ log' = <<>>
          /\ sent' = NoArgs
          /\ consumed_services' = consumed_services]_vars

C11_Witness ==
    /\ op = "consume_service"
    /\ args.service_definition \notin DOMAIN consumed_services
    /\ raised # <<>>
    /\ log = <<>>
    /\ \E k \in ConsumedDefs : k \in DOMAIN consumed_services

\* C12 (as claimed): _unregister_service for a definition that was never
\* declared provided raises UnknownServiceError and sends nothing to the
\* service registry.
C12_UndeclaredRaisesUnknownService ==
    (/\ op = "_unregister_service"
     /\ args.service_definition \notin ProvidedKeys)
    => /\ raised = <<Exc("UnknownServiceError", args.service_definition)>>
       /\ log = <<>>

\* C12 (amended): _unregister_service for a definition that was never
\* declared provided raises ValueError and sends nothing to the service
\* registry.
C12_UndeclaredRaisesValueError ==
    (/\ op = "_unregister_service"
     /\ args.service_definition \notin ProvidedKeys)
    => /\ raised = <<Exc("ValueError", args.service_definition)>>
       /\ log = <<>>
       /\ sent = NoArgs

C12_Witness ==
    /\ op = "_unregister_service"
    /\ args.service_definition \notin ProvidedKeys
    /\ Len(provided_services) >= 1
    /\ raised # <<>>
    /\ log = <<>>

\* C14: whenever _register_service has classified a service, the level is
\* NOT_SECURE exactly when the service's mode is INSECURE, and CERTIFICATE for
\* SECURE and for every other mode.
C14_SecurityModeMapping ==
    secure # NoSecure
    => /\ secure.mode = "INSECURE" => secure.level = "NOT_SECURE"
       /\ secure.mode = "SECURE" => secure.level = "CERTIFICATE"
       /\ secure.mode \notin {"INSECURE", "SECURE"} => secure.level = "CERTIFICATE"
       /\ secure.level = "NOT_SECURE" => secure.mode = "INSECURE"

C14_Witness ==
    /\ op = "_register_service"
    /\ secure.mode = "TOKEN"
    /\ secure.level = "CERTIFICATE"
    /\ Len(log) = 1

\* C15: an add_consumed_service call answered 401 raises NotAuthorizedError
\* with the errorMessage of the response, one answered 500 raises
\* CoreServiceNotAvailableError('orchestration'), and neither changes the
\* consumed catalog.
C15_OrchestratorErrorStatuses ==
    [][(pc = "done" /\ op' = "add_consumed_service")
       => /\ orch'.status = 401 =>
                /\ raised' = <<Exc("NotAuthorizedError", orch'.message)>>
                /\ consumed_services' = consumed_services
          /\ orch'.status = 500 =>
                /\ raised' = <<Exc("CoreServiceNotAvailableError", "orchestration")>>
                /\ consumed_services' = consumed_services]_vars

C15_Witness ==
    /\ op = "add_consumed_service"
    /\ orch.status = 401
    /\ raised # <<>>
    /\ raised[1].arg = "token expired"
    /\ args.service_definition \in DOMAIN consumed_services

C17_StartupShutdownOrdered ==
    op = "run_forever"
    => /\ UnregisterEntries # {} => (served \/ interrupted)
       /\ served => \A d \in ProvidedKeys : RequestsFor("register", d) # {}
       /\ RegisterEntries # {} => authorization_publickey # None

Routed(path) == \E i \in 1..Len(routes) : routes[i].path = path

C19_NoMutationWhileServing ==
    [][pc = "serve"
       => /\ consumed_services' = consumed_services
          /\ provided_services' = provided_services]_vars

\* C20: a request that reached the handler of a route added by
\* add_provided_service was found in the policy map by the middleware.
C20_RoutedRequestsAreChecked ==
    response.handler # <<>> => response.matched

RegisteredBefore(i) ==
    \E j \in 1..(i - 1) : log[j].call = "register" /\ log[j].service = log[i].service

\* C21: in a run of run_forever every unregistration request follows a
\* registration request of the same run for the same service.
C21_UnregisterOnlyRegistered ==
    op = "run_forever" => \A i \in UnregisterEntries : RegisteredBefore(i)

\* C22: the four core bindings made at construction are in the consumed
\* catalog, unchanged, in every state.
C22_CoreBindingsRemain ==
    \A k \in DOMAIN core_system_setup :
        /\ k \in DOMAIN consumed_services
        /\ consumed_services[k] = core_system_setup[k]

====
